---- MODULE Spec2Model ----
(***************************************************************************)
(* Model of mlx_lm/examples/pipeline_generate.py: N processes, one per     *)
(* rank of the distributed group, each running the script's main block:    *)
(* shard_and_load (two downloads, two lazy loads and pipeline partitions,  *)
(* parameter evaluation, the all_sum barrier), chat-template formatting,   *)
(* the stream_generate loop and the rank-gated printing of the output.     *)
(***************************************************************************)
EXTENDS Integers, Sequences, FiniteSets, TLC

\* ---------------------------------------------------------------- bounds
N == 2              \* processes of the distributed group
NumParams == 2      \* parameter names of the full (unpartitioned) model
NumFiles == 2       \* weight files of the repository
MaxTokens == 2      \* args.max_tokens

Ranks == 0 .. (N - 1)
Params == 1 .. NumParams
Files == 1 .. NumFiles

\* File names are interchangeable: nothing in the program depends on which
\* name a file has, only on which parameters share a file.  A manifest is
\* taken with its files numbered in the order of their first use.
FirstUseOrder(m) ==
    \A k \in DOMAIN m :
        \/ m[k] = 1
        \/ \E j \in DOMAIN m : j < k /\ m[j] >= m[k] - 1

\* The manifests a repository can hold: weight_map names a file for some of
\* the parameter names (a parameter name may be missing from it).
Manifests ==
    {m \in UNION {[K -> Files] : K \in SUBSET Params} : FirstUseOrder(m)}

\* ------------------------------------------------- collaborators (pipeline)
\* model.model.pipeline(group): every rank retains one contiguous run of the
\* parameters, the runs are disjoint and cover the model.  Which run a rank
\* gets is the collaborator's policy: any such assignment is allowed, and it
\* is the same in both applications of one run.
IsContiguous(S) == \A a \in S, b \in S : \A c \in Params : (a < c /\ c < b) => c \in S

IsPipelinePolicy(f) ==
    /\ \A r \in Ranks : IsContiguous(f[r])
    /\ \A r \in Ranks, s \in Ranks : (r # s) => (f[r] \cap f[s] = {})
    /\ UNION {f[r] : r \in Ranks} = Params
    /\ \A r \in Ranks, s \in Ranks :
          (r < s) => \A a \in f[r], b \in f[s] : b < a

Policies == {f \in [Ranks -> SUBSET Params] : IsPipelinePolicy(f)}

VARIABLES
    pc,            \* position of every process in the script
    steps,         \* the steps every process has completed, in order
    err,           \* the uncaught exception that ended a process, or "none"
    manifest,      \* weight_map of model.safetensors.index.json in the repo
    policy,        \* the pipeline partition the collaborator applies
    model,         \* parameter names of the process's current model handle
    weight_index,  \* the weight_map the process read
    local_files,   \* the file set the process computed
    downloads,     \* the download calls the process issued, in order
    cache,         \* weight files in the process's local snapshot directory
    tokenizer,     \* TRUE once load_tokenizer returned
    evaluated,     \* parameters of the handle forced by mx.eval
    arrived,       \* processes that have entered the all_sum collective
    prompt,        \* the formatted prompt of the process
    genArgs,       \* the (prompt, max_tokens) given to stream_generate
    genLen,        \* the number of records the generation yields (-1: not started)
    consumed,      \* records the process has taken from the sequence
    response,      \* the loop variable `response`
    out            \* stdout of every process: the print events, in order

vars == <<pc, steps, err, manifest, policy, model, weight_index, local_files,
          downloads, cache, tokenizer, evaluated, arrived, prompt, genArgs,
          genLen, consumed, response, out>>

\* ------------------------------------------------------------ pure helpers
\* group.rank() of the process
rank(p) == p

\* allow_patterns of the first download: everything but weight safetensors
MetaPatterns == {"*.json", "*.py", "tokenizer.model", "*.tiktoken", "*.txt"}

\* tree_flatten(model.parameters()): the parameter names in a fixed order
RECURSIVE tree_flatten(_)
tree_flatten(S) ==
    IF S = {} THEN <<>>
    ELSE LET k == CHOOSE x \in S : \A y \in S : x <= y
         IN  <<k>> \o tree_flatten(S \ {k})

\* Variant: every file the manifest names is collected, not only the files
\* of the local parameters.
CollectFiles_WholeIndex(keys, index, acc) ==
    IF \E i \in DOMAIN keys : keys[i] \notin DOMAIN index
    THEN [ok |-> FALSE, files |-> acc]
    ELSE [ok |-> TRUE, files |-> acc \cup {index[k] : k \in DOMAIN index}]

\* Variant: a parameter name the manifest lacks is skipped (a .get lookup)
\* where the code raises KeyError.
RECURSIVE CollectFiles_SkipMissing(_, _, _)
CollectFiles_SkipMissing(keys, index, acc) ==
    IF keys = <<>> THEN [ok |-> TRUE, files |-> acc]
    ELSE IF Head(keys) \notin DOMAIN index
         THEN CollectFiles_SkipMissing(Tail(keys), index, acc)
    ELSE CollectFiles_SkipMissing(Tail(keys), index, acc \cup {index[Head(keys)]})

\* local_files = set(); for k in ...: local_files.add(weight_index[k])
\* ok = FALSE is the KeyError of weight_index[k].
RECURSIVE CollectFiles(_, _, _)
CollectFiles(keys, index, acc) ==
    IF keys = <<>> THEN [ok |-> TRUE, files |-> acc]
    ELSE IF Head(keys) \notin DOMAIN index THEN [ok |-> FALSE, files |-> acc]
    ELSE CollectFiles(Tail(keys), index, acc \cup {index[Head(keys)]})

\* Variant: the second download fetches no weight file.
Fetch_MetadataOnly(cached, patterns) == cached

\* snapshot_download(repo, allow_patterns=files): the repository's weight
\* files that match, added to what the cache already holds
Fetch(cached, patterns) == cached \cup (Files \cap patterns)

\* tokenizer.apply_chat_template(messages, add_generation_prompt=True)
UserPrompt == "args.prompt"
apply_chat_template(messages) ==
    <<"<bos>">> \o
    [i \in 1 .. (2 * Len(messages)) |->
        IF i % 2 = 1 THEN messages[(i + 1) \div 2].role
                     ELSE messages[i \div 2].content]
    \o <<"<assistant>">>

\* The i-th record of the generation: text fragment i, cumulative counts,
\* throughputs and peak memory in units of 10^-4.
GenerationResponse(i, promptTokens) ==
    [text |-> i,
     prompt_tokens |-> Len(promptTokens),
     prompt_tps |-> 1000 * Len(promptTokens) + 4,
     generation_tokens |-> i,
     generation_tps |-> 2000 * i + 16,
     peak_memory |-> 30000 + 7 * i]

Unbound == [text |-> -1, prompt_tokens |-> -1, prompt_tps |-> -1,
            generation_tokens |-> -1, generation_tps |-> -1, peak_memory |-> -1]

\* f"{x:.3f}": x (units of 10^-4) rounded to units of 10^-3
Fmt3(x) == (x + 5) \div 10

\* Variant: the rank test is missing, every process prints.
rprint_Ungated(p, stdout, event) == Append(stdout, event)

\* rprint: print only on the process whose rank is 0
rprint(p, stdout, event) ==
    IF rank(p) = 0 THEN Append(stdout, event) ELSE stdout

SummaryLines(r) ==
    << <<"Prompt", r.prompt_tokens, Fmt3(r.prompt_tps)>>,
       <<"Generation", r.generation_tokens, Fmt3(r.generation_tps)>>,
       <<"Peak memory", Fmt3(r.peak_memory), 0>> >>

\* -------------------------------------------------------------------- Init
Init ==
    /\ manifest \in Manifests
    /\ policy \in Policies
    /\ pc = [p \in Ranks |-> "start"]
    /\ steps = [p \in Ranks |-> <<>>]
    /\ err = [p \in Ranks |-> "none"]
    /\ model = [p \in Ranks |-> {}]
    /\ weight_index = [p \in Ranks |-> <<>>]
    /\ local_files = [p \in Ranks |-> {}]
    /\ downloads = [p \in Ranks |-> <<>>]
    /\ cache = [p \in Ranks |-> {}]
    /\ tokenizer = [p \in Ranks |-> FALSE]
    /\ evaluated = [p \in Ranks |-> {}]
    /\ arrived = {}
    /\ prompt = [p \in Ranks |-> <<>>]
    /\ genArgs = [p \in Ranks |-> <<>>]
    /\ genLen = -1
    /\ consumed = [p \in Ranks |-> 0]
    /\ response = [p \in Ranks |-> Unbound]
    /\ out = [p \in Ranks |-> <<>>]

Go(p, to, step) ==
    /\ pc' = [pc EXCEPT ![p] = to]
    /\ steps' = [steps EXCEPT ![p] = Append(@, step)]

\* ----------------------------------------------------------- shard_and_load
\* model_path = download(args.model, allow_patterns=[...])
DownloadMetadata(p) ==
    /\ pc[p] = "start"
    /\ downloads' = [downloads EXCEPT ![p] = Append(@, MetaPatterns)]
    /\ Go(p, "meta", "download_metadata")
    /\ UNCHANGED <<err, manifest, policy, model, weight_index, local_files,
                   cache, tokenizer, evaluated, arrived, prompt, genArgs,
                   genLen, consumed, response, out>>

\* model, config = load_model(model_path, lazy=True, strict=False);
\* group = mx.distributed.init(); model.model.pipeline(group)
FirstLoadAndPipeline(p) ==
    /\ pc[p] = "meta"
    /\ model' = [model EXCEPT ![p] = policy[rank(p)]]
    /\ Go(p, "sharded", "load_pipeline_1")
    /\ UNCHANGED <<err, manifest, policy, weight_index, local_files, downloads,
                   cache, tokenizer, evaluated, arrived, prompt, genArgs,
                   genLen, consumed, response, out>>

\* weight_index = json.load(fid)["weight_map"]; the local_files loop
PlanLocalFiles(p) ==
    /\ pc[p] = "sharded"
    /\ weight_index' = [weight_index EXCEPT ![p] = manifest]
    /\ LET res == CollectFiles(tree_flatten(model[p]), manifest, {})
       IN  IF res.ok
           THEN /\ local_files' = [local_files EXCEPT ![p] = res.files]
                /\ Go(p, "planned", "plan_local_files")
                /\ err' = err
           ELSE /\ local_files' = local_files
                /\ pc' = [pc EXCEPT ![p] = "failed"]
                /\ steps' = steps
                /\ err' = [err EXCEPT ![p] = "KeyError"]
    /\ UNCHANGED <<manifest, policy, model, downloads, cache, tokenizer,
                   evaluated, arrived, prompt, genArgs, genLen, consumed,
                   response, out>>

\* Variant: the weight download is issued right after the metadata download,
\* before the first load and partition.
DownloadWeights_Early(p) ==
    /\ pc[p] = "meta"
    /\ downloads' = [downloads EXCEPT ![p] = Append(@, local_files[p])]
    /\ cache' = [cache EXCEPT ![p] = Fetch(@, local_files[p])]
    /\ Go(p, "weights", "download_weights")
    /\ UNCHANGED <<err, manifest, policy, model, weight_index, local_files,
                   tokenizer, evaluated, arrived, prompt, genArgs, genLen,
                   consumed, response, out>>

\* download(args.model, allow_patterns=local_files)
DownloadWeights(p) ==
    /\ pc[p] = "planned"
    /\ downloads' = [downloads EXCEPT ![p] = Append(@, local_files[p])]
    /\ cache' = [cache EXCEPT ![p] = Fetch(@, local_files[p])]
    /\ Go(p, "weights", "download_weights")
    /\ UNCHANGED <<err, manifest, policy, model, weight_index, local_files,
                   tokenizer, evaluated, arrived, prompt, genArgs, genLen,
                   consumed, response, out>>

\* tokenizer = load_tokenizer(model_path, ...)
LoadTokenizer(p) ==
    /\ pc[p] = "weights"
    /\ tokenizer' = [tokenizer EXCEPT ![p] = TRUE]
    /\ Go(p, "tokenizer", "load_tokenizer")
    /\ UNCHANGED <<err, manifest, policy, model, weight_index, local_files,
                   downloads, cache, evaluated, arrived, prompt, genArgs,
                   genLen, consumed, response, out>>

\* model, _ = load_model(model_path, lazy=True, strict=False);
\* model.model.pipeline(group): a new handle, nothing of it evaluated yet
SecondLoadAndPipeline(p) ==
    /\ pc[p] = "tokenizer"
    /\ model' = [model EXCEPT ![p] = policy[rank(p)]]
    /\ evaluated' = [evaluated EXCEPT ![p] = {}]
    /\ Go(p, "resharded", "load_pipeline_2")
    /\ UNCHANGED <<err, manifest, policy, weight_index, local_files, downloads,
                   cache, tokenizer, arrived, prompt, genArgs, genLen,
                   consumed, response, out>>

\* mx.eval(model.parameters())
EvalParameters(p) ==
    /\ pc[p] = "resharded"
    /\ evaluated' = [evaluated EXCEPT ![p] = model[p]]
    /\ Go(p, "evaluated", "eval_parameters")
    /\ UNCHANGED <<err, manifest, policy, model, weight_index, local_files,
                   downloads, cache, tokenizer, arrived, prompt, genArgs,
                   genLen, consumed, response, out>>

\* mx.eval(mx.distributed.all_sum(...)): the process enters the collective
EnterAllSum(p) ==
    /\ pc[p] = "evaluated"
    /\ arrived' = arrived \cup {p}
    /\ Go(p, "all_sum", "barrier")
    /\ UNCHANGED <<err, manifest, policy, model, weight_index, local_files,
                   downloads, cache, tokenizer, evaluated, prompt, genArgs,
                   genLen, consumed, response, out>>

\* Variant: the collective completes as soon as one process has entered it.
AllSumComplete_Any == arrived # {}

\* Variant: the collective waits for one process more than the group has.
AllSumComplete_OffByOne == Cardinality(arrived) = N + 1

\* the collective completes once every process of the group has entered it
AllSumComplete == arrived = Ranks

\* return model, tokenizer
ReturnFromShardAndLoad(p) ==
    /\ pc[p] = "all_sum"
    /\ AllSumComplete
    /\ pc' = [pc EXCEPT ![p] = "returned"]
    /\ UNCHANGED <<steps, err, manifest, policy, model, weight_index,
                   local_files, downloads, cache, tokenizer, evaluated,
                   arrived, prompt, genArgs, genLen, consumed, response, out>>

\* --------------------------------------------------------------- __main__
\* messages = [...]; prompt = tokenizer.apply_chat_template(...)
FormatPrompt(p) ==
    /\ pc[p] = "returned"
    /\ prompt' = [prompt EXCEPT ![p] =
          apply_chat_template(<<[role |-> "user", content |-> UserPrompt]>>)]
    /\ Go(p, "formatted", "format_prompt")
    /\ UNCHANGED <<err, manifest, policy, model, weight_index, local_files,
                   downloads, cache, tokenizer, evaluated, arrived, genArgs,
                   genLen, consumed, response, out>>

\* stream_generate(model, tokenizer, prompt, max_tokens=args.max_tokens).
\* The pipelined generation is one computation of the whole group: the first
\* call fixes how many records it yields, at most max_tokens.
StreamGenerate(p) ==
    /\ pc[p] = "formatted"
    /\ genArgs' = [genArgs EXCEPT ![p] = <<prompt[p], MaxTokens>>]
    /\ IF genLen = -1 THEN genLen' \in 0 .. MaxTokens ELSE genLen' = genLen
    /\ Go(p, "loop", "stream_generate")
    /\ UNCHANGED <<err, manifest, policy, model, weight_index, local_files,
                   downloads, cache, tokenizer, evaluated, arrived, prompt,
                   consumed, response, out>>

\* Variant: `response` is bound by the first record only.
NextRecord_KeepFirst(p) ==
    /\ pc[p] = "loop"
    /\ IF consumed[p] < genLen
       THEN /\ consumed' = [consumed EXCEPT ![p] = @ + 1]
            /\ response' = [response EXCEPT ![p] =
                              IF @ = Unbound
                              THEN GenerationResponse(consumed[p] + 1, genArgs[p][1])
                              ELSE @]
            /\ pc' = [pc EXCEPT ![p] = "body"]
       ELSE /\ pc' = [pc EXCEPT ![p] = "exhausted"]
            /\ UNCHANGED <<consumed, response>>
    /\ UNCHANGED <<steps, err, manifest, policy, model, weight_index,
                   local_files, downloads, cache, tokenizer, evaluated,
                   arrived, prompt, genArgs, genLen, out>>

\* Variant: a process whose rank is not 0 leaves the loop after one record.
NextRecord_RankZeroOnly(p) ==
    /\ pc[p] = "loop"
    /\ IF consumed[p] < genLen /\ (rank(p) = 0 \/ consumed[p] = 0)
       THEN /\ consumed' = [consumed EXCEPT ![p] = @ + 1]
            /\ response' = [response EXCEPT ![p] =
                              GenerationResponse(consumed[p] + 1, genArgs[p][1])]
            /\ pc' = [pc EXCEPT ![p] = "body"]
       ELSE /\ pc' = [pc EXCEPT ![p] = "exhausted"]
            /\ UNCHANGED <<consumed, response>>
    /\ UNCHANGED <<steps, err, manifest, policy, model, weight_index,
                   local_files, downloads, cache, tokenizer, evaluated,
                   arrived, prompt, genArgs, genLen, out>>

\* for response in ...: the next record is requested; the sequence yields it
\* or is exhausted
NextRecord(p) ==
    /\ pc[p] = "loop"
    /\ IF consumed[p] < genLen
       THEN /\ consumed' = [consumed EXCEPT ![p] = @ + 1]
            /\ response' = [response EXCEPT ![p] =
                              GenerationResponse(consumed[p] + 1, genArgs[p][1])]
            /\ pc' = [pc EXCEPT ![p] = "body"]
       ELSE /\ pc' = [pc EXCEPT ![p] = "exhausted"]
            /\ UNCHANGED <<consumed, response>>
    /\ UNCHANGED <<steps, err, manifest, policy, model, weight_index,
                   local_files, downloads, cache, tokenizer, evaluated,
                   arrived, prompt, genArgs, genLen, out>>

\* Variant: the fragment is printed with print's default line end.
PrintFragment_Newline(p) ==
    /\ pc[p] = "body"
    /\ out' = [out EXCEPT ![p] =
                 rprint(p, rprint(p, @, <<"text", response[p].text, 0>>),
                        <<"newline", 0, 0>>)]
    /\ pc' = [pc EXCEPT ![p] = "loop"]
    /\ UNCHANGED <<steps, err, manifest, policy, model, weight_index,
                   local_files, downloads, cache, tokenizer, evaluated,
                   arrived, prompt, genArgs, genLen, consumed, response>>

\* rprint(response.text, end="", flush=True)
PrintFragment(p) ==
    /\ pc[p] = "body"
    /\ out' = [out EXCEPT ![p] = rprint(p, @, <<"text", response[p].text, 0>>)]
    /\ pc' = [pc EXCEPT ![p] = "loop"]
    /\ UNCHANGED <<steps, err, manifest, policy, model, weight_index,
                   local_files, downloads, cache, tokenizer, evaluated,
                   arrived, prompt, genArgs, genLen, consumed, response>>

\* rprint(); rprint("=" * 10)
PrintSeparator(p) ==
    /\ pc[p] = "exhausted"
    /\ out' = [out EXCEPT ![p] =
                 rprint(p, rprint(p, @, <<"newline", 0, 0>>), <<"==========", 0, 0>>)]
    /\ pc' = [pc EXCEPT ![p] = "separated"]
    /\ UNCHANGED <<steps, err, manifest, policy, model, weight_index,
                   local_files, downloads, cache, tokenizer, evaluated,
                   arrived, prompt, genArgs, genLen, consumed, response>>

\* the three rprint(f"...") of the summary; the f-string is built on every
\* rank before rprint is called, and reading an unbound `response` raises
\* NameError
PrintSummary(p) ==
    /\ pc[p] = "separated"
    /\ IF response[p] = Unbound
       THEN /\ pc' = [pc EXCEPT ![p] = "failed"]
            /\ err' = [err EXCEPT ![p] = "NameError"]
            /\ UNCHANGED <<steps, out>>
       ELSE /\ LET lines == SummaryLines(response[p])
               IN  out' = [out EXCEPT ![p] =
                      rprint(p, rprint(p, rprint(p, @, lines[1]), lines[2]), lines[3])]
            /\ Go(p, "done", "print_summary")
            /\ err' = err
    /\ UNCHANGED <<manifest, policy, model, weight_index, local_files,
                   downloads, cache, tokenizer, evaluated, arrived, prompt,
                   genArgs, genLen, consumed, response>>

Proc(p) ==
    \/ DownloadMetadata(p)
    \/ FirstLoadAndPipeline(p)
    \/ PlanLocalFiles(p)
    \/ DownloadWeights(p)
    \/ LoadTokenizer(p)
    \/ SecondLoadAndPipeline(p)
    \/ EvalParameters(p)
    \/ EnterAllSum(p)
    \/ ReturnFromShardAndLoad(p)
    \/ FormatPrompt(p)
    \/ StreamGenerate(p)
    \/ NextRecord(p)
    \/ PrintFragment(p)
    \/ PrintSeparator(p)
    \/ PrintSummary(p)

Next == \E p \in Ranks : Proc(p)

Spec == Init /\ [][Next]_vars

\* Every process is an operating-system process of its own and keeps running
\* while it has a step to take.
FairSpec == Spec /\ \A p \in Ranks : WF_vars(Proc(p))

\* ------------------------------------------------------------- properties
Did(p, step) == \E i \in DOMAIN steps[p] : steps[p][i] = step

IsPrefix(s, t) == Len(s) <= Len(t) /\ SubSeq(t, 1, Len(s)) = s

\* The process has returned from shard_and_load.
Returned(p) == pc[p] = "returned" \/ Did(p, "format_prompt")

\* The for loop of the process has ended: its sequence is exhausted.
Exhausted(p) ==
    pc[p] \in {"exhausted", "separated", "done"} \/ err[p] = "NameError"

\* The process has stopped: it ran to the end or an exception ended it.
Stopped(p) == pc[p] \in {"done", "failed"}

\* The steps of one run, in the order of the script.
Order ==
    <<"download_metadata", "load_pipeline_1", "plan_local_files",
      "download_weights", "load_tokenizer", "load_pipeline_2",
      "eval_parameters", "barrier", "format_prompt", "stream_generate",
      "print_summary">>

FormattedPrompt == <<"<bos>", "user", UserPrompt, "<assistant>">>

Fragments(n) == [i \in 1 .. n |-> <<"text", i, 0>>]

Trailer == << <<"newline", 0, 0>>, <<"==========", 0, 0>> >>

\* The summary lines of the n-th record of the generation.
SummaryOf(n) ==
    << <<"Prompt", Len(FormattedPrompt), Fmt3(1000 * Len(FormattedPrompt) + 4)>>,
       <<"Generation", n, Fmt3(2000 * n + 16)>>,
       <<"Peak memory", Fmt3(30000 + 7 * n), 0>> >>

\* C1: no process returns from shard_and_load (so none formats the prompt or
\* starts stream_generate) before every process of the group has issued its
\* weight download, evaluated its parameters and entered the all_sum
\* collective; while one process has not entered it, the others stay blocked.
C1_BarrierBeforeGeneration ==
    \A p \in Ranks :
        (Returned(p) \/ genArgs[p] # <<>>) =>
            \A q \in Ranks :
                /\ q \in arrived
                /\ Did(q, "download_weights")
                /\ Did(q, "eval_parameters")
                /\ evaluated[q] = model[q]

C1_Witness ==
    \E p \in Ranks : Returned(p) /\ \E q \in Ranks : q # p /\ pc[q] = "all_sum"

\* C2: every print event is performed by the process whose rank is 0; a
\* process whose rank is not 0 has an empty stdout in every reachable state.
C2_OnlyRankZeroPrints ==
    \A p \in Ranks : (rank(p) # 0) => (out[p] = <<>>)

C2_Witness ==
    /\ N > 1
    /\ \E p \in Ranks : rank(p) # 0 /\ pc[p] = "done" /\ consumed[p] > 0
    /\ \E p \in Ranks : rank(p) = 0 /\ Len(out[p]) > 0

\* C3: once shard_and_load has computed the local file set from manifest M
\* and the parameter names P of the partitioned lazy model, that set is
\* exactly {M[k] : k in P}, and it is the pattern set of the second download.
C3_LocalFilesAreManifestImage ==
    \A p \in Ranks :
        /\ (pc[p] \in {"planned", "weights", "tokenizer"}) =>
               /\ model[p] \subseteq DOMAIN manifest
               /\ local_files[p] = {manifest[k] : k \in model[p]}
        /\ (Len(downloads[p]) >= 2) =>
               downloads[p][2] = {manifest[k] : k \in policy[rank(p)]}

C3_Witness ==
    \E p \in Ranks :
        /\ pc[p] = "weights"
        /\ Cardinality(model[p]) = 2
        /\ Cardinality(local_files[p]) = 1
        /\ Cardinality({manifest[k] : k \in DOMAIN manifest}) = 1

C3_WitnessNoExtraneous ==
    \E p \in Ranks :
        /\ pc[p] = "weights"
        /\ model[p] # {}
        /\ \E k \in DOMAIN manifest : manifest[k] \notin local_files[p]

C5_StepOrder ==
    \A p \in Ranks :
        /\ IsPrefix(steps[p], Order)
        /\ Len(downloads[p]) <= 2
        /\ (Len(downloads[p]) >= 1) => (downloads[p][1] = MetaPatterns)
        /\ (Len(downloads[p]) = 2) =>
               (Did(p, "load_pipeline_1") /\ downloads[p][2] = local_files[p])
        /\ (Len(downloads[p]) = 2) <=> Did(p, "download_weights")
        /\ (pc[p] = "done") => (steps[p] = Order /\ Len(downloads[p]) = 2)

C5_Witness == \E p \in Ranks : pc[p] = "done" /\ steps[p] = Order

\* C6: for a non-empty sequence of n records, rank 0 has printed exactly the
\* fragments of the records taken so far whenever it requests the next
\* record, and its complete output is the n fragments in order, a newline,
\* the separator line and the three summary lines; the output is at every
\* moment an initial part of that.
C6_RankZeroOutput ==
    \A p \in Ranks :
        (rank(p) = 0 /\ genLen >= 1) =>
            /\ IsPrefix(out[p], Fragments(genLen) \o Trailer \o SummaryOf(genLen))
            /\ (pc[p] = "loop") => (out[p] = Fragments(consumed[p]))
            /\ (pc[p] = "body") => (out[p] = Fragments(consumed[p] - 1))
            /\ (pc[p] = "exhausted") => (out[p] = Fragments(genLen))
            /\ (pc[p] = "done") =>
                   (out[p] = Fragments(genLen) \o Trailer \o SummaryOf(genLen))

C6_Witness ==
    \E p \in Ranks : rank(p) = 0 /\ pc[p] = "done" /\ genLen = MaxTokens

\* C7 as stated: whenever the sequence of a process is exhausted, whatever
\* the number of records (zero included), the process that has stopped has
\* printed the statistics block, with the values of the final record.
C7_Original ==
    \A p \in Ranks :
        (Exhausted(p) /\ Stopped(p)) =>
            /\ Did(p, "print_summary")
            /\ (rank(p) = 0) =>
                   (SubSeq(out[p], Len(out[p]) - 2, Len(out[p])) = SummaryOf(genLen))

\* C7 amended: when the exhausted sequence yielded at least one record, the
\* stopped process has gone through the statistics block with the values of
\* the final record (printed on rank 0); when it yielded none, the process
\* has stopped with NameError after the newline and the separator, and no
\* statistics line is printed.
C7_Amended ==
    \A p \in Ranks :
        (Exhausted(p) /\ Stopped(p)) =>
            IF genLen >= 1
            THEN /\ pc[p] = "done"
                 /\ Did(p, "print_summary")
                 /\ response[p] = GenerationResponse(genLen, FormattedPrompt)
                 /\ (rank(p) = 0) =>
                        (SubSeq(out[p], Len(out[p]) - 2, Len(out[p]))
                            = SummaryOf(genLen))
            ELSE /\ err[p] = "NameError"
                 /\ ~Did(p, "print_summary")
                 /\ out[p] = (IF rank(p) = 0 THEN Trailer ELSE <<>>)

C7_Witness ==
    \E p \in Ranks : rank(p) = 0 /\ pc[p] = "done" /\ consumed[p] >= 2

\* C8: a process whose partitioned lazy model has a parameter name that is
\* not a key of weight_map stops with KeyError in the file-set computation:
\* it has issued the metadata download only, has no weight file, has not
\* loaded a second time, has not entered the barrier, has not started
\* generation and has printed nothing.
C8_MissingKeyIsFatal ==
    \A p \in Ranks :
        (Did(p, "load_pipeline_1") /\ pc[p] # "sharded"
            /\ ~(model[p] \subseteq DOMAIN manifest)) =>
            /\ pc[p] = "failed"
            /\ err[p] = "KeyError"
            /\ downloads[p] = <<MetaPatterns>>
            /\ cache[p] = {}
            /\ ~Did(p, "load_pipeline_2")
            /\ p \notin arrived
            /\ genArgs[p] = <<>>
            /\ consumed[p] = 0
            /\ out[p] = <<>>

C8_Witness ==
    \E p \in Ranks :
        /\ err[p] = "KeyError"
        /\ \E q \in Ranks : q # p /\ pc[q] = "all_sum"

\* C9: a process of any rank whose loop has ended has gone through every
\* step of loading, partitioning, evaluation and the barrier, has formatted
\* the prompt, has called stream_generate with the formatted prompt and
\* max_tokens (the same on every rank) and has taken every record of the
\* sequence.
C9_EveryRankRunsEverything ==
    /\ \A p \in Ranks :
          Exhausted(p) =>
              /\ IsPrefix(SubSeq(Order, 1, 10), steps[p])
              /\ p \in arrived
              /\ evaluated[p] = model[p]
              /\ prompt[p] = FormattedPrompt
              /\ genArgs[p] = <<FormattedPrompt, MaxTokens>>
              /\ consumed[p] = genLen
    /\ \A p \in Ranks, q \in Ranks :
          (genArgs[p] # <<>> /\ genArgs[q] # <<>>) => (genArgs[p] = genArgs[q])

C9_Witness ==
    \E p \in Ranks : rank(p) # 0 /\ pc[p] = "done" /\ consumed[p] = MaxTokens

\* Every rank's partitioned model has all its parameter names in the manifest:
\* no load fails.
LoadsSucceed == \A r \in Ranks : policy[r] \subseteq DOMAIN manifest

AllPassedBarrier == \A p \in Ranks : Returned(p)

AllExhausted == \A p \in Ranks : Exhausted(p)

SummaryPrinted ==
    \E p \in Ranks :
        /\ rank(p) = 0
        /\ pc[p] = "done"
        /\ Len(out[p]) >= 3
        /\ SubSeq(out[p], Len(out[p]) - 2, Len(out[p])) = SummaryLines(response[p])

\* C10 as stated: under fair scheduling, if no load fails (the sequences are
\* finite), every process eventually passes the barrier and exhausts its
\* sequence, and rank 0 eventually prints the summary block.
C10_Original ==
    LoadsSucceed ~> (AllPassedBarrier /\ AllExhausted /\ SummaryPrinted)

\* C10 amended: under fair scheduling, if no load fails, every process
\* eventually passes the barrier and exhausts its sequence; and if moreover
\* the generation yields at least one record, rank 0 eventually prints the
\* summary block.
C10_Amended ==
    /\ LoadsSucceed ~> (AllPassedBarrier /\ AllExhausted)
    /\ (LoadsSucceed /\ genLen >= 1) ~> SummaryPrinted

C10_Witness ==
    /\ LoadsSucceed
    /\ AllPassedBarrier
    /\ AllExhausted
    /\ SummaryPrinted
    /\ \A p \in Ranks : pc[p] = "done"

====
